---- MODULE Spec2Model ----
(***************************************************************************)
(* A model of amiquip's connection handle (src/src/connection.rs), its     *)
(* delivered-message acknowledgment methods (src/src/delivery.rs) and its  *)
(* error values (src/src/errors.rs).                                       *)
(*                                                                         *)
(* Three threads take steps: the thread that owns the Connection (pc), a   *)
(* consumer thread that holds Delivery values and Channel handles          *)
(* (consumer), and the engine thread (engine).  The engine, the control    *)
(* plane handle (Channel0Handle) and Channel are collaborators whose code  *)
(* is not part of these three files; their steps follow the design         *)
(* document and are marked "collaborator" below.                           *)
(* ConnectionTuning values and their setters have a specification of their *)
(* own (SpecTuning), as have the acknowledgments (SpecAck).                 *)
(***************************************************************************)
EXTENDS Naturals, Sequences, FiniteSets

VARIABLES
    pc,           \* position of the thread that owns the Connection
    join_handle,  \* Connection.join_handle: "absent" (no Connection), "Some", "None"
    handleFate,   \* what became of the JoinHandle: "none", "held", "joined", "detached"
    engine,       \* the engine thread: [st, res, payload]
    request,      \* control-plane command waiting for the engine (<<>> or <<r>>)
    response,     \* the engine's answer to the blocked caller (<<>> or <<r>>)
    cur,          \* the blocking call in progress on the owner thread
    calls,        \* finished close_impl invocations, in order
    closeCmds,    \* close-connection commands handed to the control plane
    joins,        \* JoinHandle::join calls made
    openRet,      \* what Connection::open returned (<<>> before it returns)
    lastOp,       \* the last finished open_channel / listen_for_connection_blocked
    channels,     \* Channel handles the application holds
    open_ids,     \* channel ids the engine has open
    blocked_tx,   \* the engine's blocked-notification sender slot (0: empty)
    nextRx,       \* next notification channel to be created
    consumer,     \* the consumer thread: "running" or "panicked"
    delivery,     \* the Delivery the consumer thread works on (<<>> or <<d>>)
    copies,       \* values of it the thread holds: the received one and its clones
    nextTag,      \* per channel id, the delivery tag the broker assigns next
    clones,       \* Delivery::clone calls made on it
    basicCalls,   \* basic_ack / basic_nack / basic_reject calls made for it
    lastCall,     \* the last ack / nack / reject call and what it did
    socket,       \* the stream: whether the caller still holds it, and who did I/O on it
    receivers,    \* receiving endpoints listen_for_connection_blocked has returned
    notes,        \* blocked / unblocked notifications the engine has pushed
    tuning,       \* a ConnectionTuning value under construction
    lastSet       \* the last ConnectionTuning setter applied to it

connVars == <<pc, join_handle, handleFate, engine, request, response, cur, calls,
              closeCmds, joins, openRet, lastOp, channels, open_ids, blocked_tx, nextRx,
              socket, receivers, notes>>

ackVars == <<consumer, delivery, copies, nextTag, clones, basicCalls, lastCall>>

tuneVars == <<tuning, lastSet>>

vars == <<connVars, ackVars, tuneVars>>

----------------------------------------------------------------------------
(* Bounds of the model. *)

\* negotiated channel_max: channel ids 1..ChannelMax
ChannelMax == 2
\* listen_for_connection_blocked calls explored
MaxListeners == 2
\* delivery tags the broker hands out per channel
MaxTag == 2
\* Delivery::clone calls explored per delivery
MaxClones == 1
\* blocked / unblocked notifications explored
MaxNotes == 2
\* ConnectionTuning arguments explored: 0..MaxArg and the default values
MaxArg == 1

----------------------------------------------------------------------------
(* errors.rs: ErrorKind and Error *)

ErrorKind(k, c, t) == [kind |-> k, code |-> c, text |-> t]
NoKind == ErrorKind("", 0, "")
UnexpectedSocketClose == ErrorKind("UnexpectedSocketClose", 0, "")
Io == ErrorKind("Io", 0, "")
InvalidCredentials == ErrorKind("InvalidCredentials", 0, "")
ServerClosedConnection(code, text) == ErrorKind("ServerClosedConnection", code, text)
ClientClosedConnection == ErrorKind("ClientClosedConnection", 0, "")
EventLoopDropped == ErrorKind("EventLoopDropped", 0, "")
ForkFailed == ErrorKind("ForkFailed", 0, "")
ExhaustedChannelIds == ErrorKind("ExhaustedChannelIds", 0, "")
UnavailableChannelId(id) == ErrorKind("UnavailableChannelId", id, "")
IoThreadPanic(s) == ErrorKind("IoThreadPanic", 0, s)

\* impl From<ErrorKind> for Error: a fresh shared context holding the kind
ErrorFrom(kind) == [ctx |-> kind]
\* Error::kind
KindOf(e) == e.ctx

\* a clone that rebuilds the error as the generic dropped-sender kind
ErrorCloneGeneric(e) == [ctx |-> EventLoopDropped]
\* #[derive(Clone)] on Error { ctx: Arc<..> }: the clone shares the context
ErrorClone(e) == [ctx |-> e.ctx]

\* Result<T>
OkVal(v) == [ok |-> TRUE, val |-> v, err |-> ErrorFrom(NoKind)]
OkUnit == OkVal(0)
Err(e) == [ok |-> FALSE, val |-> 0, err |-> e]

----------------------------------------------------------------------------
(* The engine (collaborator) *)

Engine(st, res, payload) == [st |-> st, res |-> res, payload |-> payload]

\* what can make a running engine stop: the peer closes the connection with a
\* reply code and text, or the socket closes
EngineFailures ==
    { ServerClosedConnection(320, "CONNECTION_FORCED"),
      ServerClosedConnection(541, "INTERNAL_ERROR"),
      UnexpectedSocketClose }

\* payloads of an uncaught fault of the engine thread
PanicPayloads == {"index out of bounds", "unwrap on None"}

EngineAccepting == engine.st = "running"
EngineTerminated == engine.st \in {"returned", "panicked"}
EngineLive == engine.st \in {"running", "closing", "failing"}

\* the root cause a stopped engine holds (NoKind while it has none)
RootCause ==
    IF engine.st \in {"failing", "returned"} /\ ~engine.res.ok
    THEN KindOf(engine.res.err) ELSE NoKind

\* the error a command gets when the control plane no longer accepts it
ControlPlaneError ==
    IF engine.st \in {"failing", "returned"} /\ ~engine.res.ok
    THEN ErrorClone(engine.res.err)
    ELSE IF engine.st = "panicked"
    THEN ErrorFrom(EventLoopDropped)
    ELSE ErrorFrom(ClientClosedConnection)

Resp(r, from) == [ok |-> r.ok, val |-> r.val, err |-> r.err, from |-> from]
ResultOf(resp) == [ok |-> resp.ok, val |-> resp.val, err |-> resp.err]

\* Option<u16>
NoneId == [some |-> FALSE, id |-> 0]
SomeId(k) == [some |-> TRUE, id |-> k]
ChannelIds == 1..ChannelMax
ChannelArgs == {NoneId} \cup {SomeId(k) : k \in ChannelIds}

\* IoLoop::new(tuning)
IoLoopNew(pollOk) == IF pollOk THEN OkUnit ELSE Err(ErrorFrom(Io))

\* one read or write of the socket: the thread that made it and what it was running
SocketIo(thread, op) == [thread |-> thread, op |-> op]

\* IoLoop::start(stream, options): the handshake runs on the calling thread; the
\* engine thread is spawned only when it has completed
Streams == {"ok", "closes", "bad_credentials"}
IoLoopStart(stream, forkOk) ==
    IF stream = "closes"
    THEN [res |-> Err(ErrorFrom(UnexpectedSocketClose)), thread |-> FALSE,
          io |-> {SocketIo("caller", "open")}]
    ELSE IF stream = "bad_credentials"
    THEN [res |-> Err(ErrorFrom(InvalidCredentials)), thread |-> FALSE,
          io |-> {SocketIo("caller", "open")}]
    ELSE IF ~forkOk
    THEN [res |-> Err(ErrorFrom(ForkFailed)), thread |-> FALSE,
          io |-> {SocketIo("caller", "open")}]
    ELSE [res |-> OkUnit, thread |-> TRUE, io |-> {SocketIo("caller", "open")}]

\* the engine thread reads or writes the socket
EngineIo == [socket EXCEPT !.io = @ \cup {SocketIo("engine", "run")}]

----------------------------------------------------------------------------
(* connection.rs: Connection *)

\* Channel::new(handle): the application's handle to a channel of a connection
Channel(id, conn) == [channel_id |-> id, conn |-> conn]
ThisConn == "this"
\* a channel of another connection the application also holds
ForeignChannels == {Channel(1, "other")}

\* Delivery { channel_id, delivery_tag, .. }: the message fields (redelivered, exchange,
\* routing_key, content, properties) are carried along and read by no operation here
Delivery(channel_id, delivery_tag) ==
    [channel_id |-> channel_id, delivery_tag |-> delivery_tag]
Deliveries == {Delivery(k, t) : k \in ChannelIds, t \in 1..MaxTag}

NoAck == [op |-> "none", d |-> Delivery(0, 0), c |-> Channel(0, ""), multiple |-> FALSE,
          requeue |-> FALSE, outcome |-> "none", res |-> OkUnit, sent |-> <<>>,
          before |-> 0, engineAtCall |-> "none"]

NoCall == [op |-> "none", by |-> "none", root |-> NoKind, engineAtCall |-> "none",
           arg |-> NoneId, before |-> {}, cmd |-> OkUnit]
NoOp == [op |-> "none", res |-> OkUnit, root |-> NoKind, blocked |-> FALSE,
         arg |-> NoneId, before |-> {}, served |-> FALSE]

\* impl Default for ConnectionTuning; poll_timeout is None (0) or Some(d) (d > 0)
TuningDefault ==
    [mem_channel_bound |-> 16, buffered_writes_high_water |-> 16777216,
     buffered_writes_low_water |-> 0, poll_timeout |-> 0]
NoSet == [field |-> "none", arg |-> 0, before |-> TuningDefault]

\* usize arguments explored, the default values among them
TuningArgs == (0..MaxArg) \cup {16, 16777216}
\* Option<Duration> arguments explored: None (0) and Some(d)
Timeouts == 0..MaxArg
TuningFields == {"mem_channel_bound", "buffered_writes_high_water",
                 "buffered_writes_low_water", "poll_timeout"}
\* the values of struct ConnectionTuning (its fields are public)
Tunings ==
    [mem_channel_bound : TuningArgs, buffered_writes_high_water : TuningArgs,
     buffered_writes_low_water : TuningArgs, poll_timeout : Timeouts]

\* ConnectionTuning::mem_channel_bound: ConnectionTuning { mem_channel_bound, ..self }
mem_channel_bound(self, v) ==
    [mem_channel_bound |-> v,
     buffered_writes_high_water |-> self.buffered_writes_high_water,
     buffered_writes_low_water |-> self.buffered_writes_low_water,
     poll_timeout |-> self.poll_timeout]

\* ConnectionTuning::buffered_writes_high_water
buffered_writes_high_water(self, v) ==
    [mem_channel_bound |-> self.mem_channel_bound,
     buffered_writes_high_water |-> v,
     buffered_writes_low_water |-> self.buffered_writes_low_water,
     poll_timeout |-> self.poll_timeout]

\* a low-water setter that keeps the mark at or below the high-water mark
buffered_writes_low_water_clamped(self, v) ==
    [mem_channel_bound |-> self.mem_channel_bound,
     buffered_writes_high_water |-> self.buffered_writes_high_water,
     buffered_writes_low_water |->
         IF v <= self.buffered_writes_high_water THEN v
         ELSE self.buffered_writes_high_water,
     poll_timeout |-> self.poll_timeout]
\* ConnectionTuning::buffered_writes_low_water
buffered_writes_low_water(self, v) ==
    [mem_channel_bound |-> self.mem_channel_bound,
     buffered_writes_high_water |-> self.buffered_writes_high_water,
     buffered_writes_low_water |-> v,
     poll_timeout |-> self.poll_timeout]

\* ConnectionTuning::poll_timeout
poll_timeout(self, v) ==
    [mem_channel_bound |-> self.mem_channel_bound,
     buffered_writes_high_water |-> self.buffered_writes_high_water,
     buffered_writes_low_water |-> self.buffered_writes_low_water,
     poll_timeout |-> v]

\* a setter is called on the value and the result replaces it (setters take self by
\* value and return Self)
ApplySetter(field, v, result) ==
    /\ tuning' = result
    /\ lastSet' = [field |-> field, arg |-> v, before |-> tuning]
    /\ UNCHANGED <<connVars, ackVars>>

SetMemChannelBound ==
    \E v \in TuningArgs : ApplySetter("mem_channel_bound", v, mem_channel_bound(tuning, v))

SetBufferedWritesHighWater ==
    \E v \in TuningArgs :
       ApplySetter("buffered_writes_high_water", v, buffered_writes_high_water(tuning, v))

SetBufferedWritesLowWater ==
    \E v \in TuningArgs :
       ApplySetter("buffered_writes_low_water", v, buffered_writes_low_water(tuning, v))

SetPollTimeout ==
    \E v \in Timeouts : ApplySetter("poll_timeout", v, poll_timeout(tuning, v))

\* no Connection yet: the application holds a stream and a tuning value
InitConnection ==
    /\ pc = "start"
    /\ join_handle = "absent"
    /\ handleFate = "none"
    /\ engine = Engine("none", OkUnit, "")
    /\ request = <<>>
    /\ response = <<>>
    /\ cur = NoCall
    /\ calls = <<>>
    /\ closeCmds = 0
    /\ joins = 0
    /\ openRet = <<>>
    /\ lastOp = NoOp
    /\ channels = {}
    /\ open_ids = {}
    /\ blocked_tx = 0
    /\ nextRx = 1
    /\ consumer = "running"
    /\ delivery = <<>>
    /\ copies = 0
    /\ nextTag = [k \in ChannelIds |-> 1]
    /\ clones = 0
    /\ basicCalls = 0
    /\ lastCall = NoAck
    /\ socket = [callerHolds |-> TRUE, io |-> {}]
    /\ receivers = <<>>
    /\ notes = <<>>

Init ==
    /\ InitConnection
    /\ tuning = TuningDefault
    /\ lastSet = NoSet

\* an open that builds the Connection with an empty slot
OpenConnectionNoHandle(started) ==
    [pc |-> "idle", slot |-> "None", fate |-> IF started.thread THEN "detached" ELSE "none"]
\* Connection::open, the Ok(Connection { join_handle: Some(join_handle), .. }) arm
OpenConnection(started) ==
    [pc |-> "idle", slot |-> "Some", fate |-> "held"]

\* a start that works on a second handle to the stream and leaves the caller its own
ShareStream(stream) == [caller |-> TRUE, engine |-> stream]
\* io_loop.start(stream, options): the stream is moved into the engine
MoveStream(stream) == [caller |-> FALSE, engine |-> stream]

\* Connection::open
Open ==
    /\ pc = "start"
    /\ \E pollOk \in BOOLEAN, stream \in Streams, forkOk \in BOOLEAN :
         LET made == IoLoopNew(pollOk)
             started == IoLoopStart(MoveStream(stream).engine, forkOk)
         IN  IF ~made.ok
             THEN /\ openRet' = <<[res |-> made, stream |-> stream, pollOk |-> pollOk]>>
                  /\ pc' = "open_failed"
                  /\ socket' = [socket EXCEPT !.callerHolds = FALSE]
                  /\ UNCHANGED <<join_handle, handleFate, engine>>
             ELSE IF ~started.res.ok
             THEN /\ openRet' = <<[res |-> started.res, stream |-> stream, pollOk |-> pollOk]>>
                  /\ pc' = "open_failed"
                  /\ engine' = IF started.thread THEN Engine("running", OkUnit, "") ELSE engine
                  /\ socket' = [callerHolds |-> MoveStream(stream).caller,
                                io |-> socket.io \cup started.io]
                  /\ UNCHANGED <<join_handle, handleFate>>
             ELSE LET c == OpenConnection(started)
                  IN  /\ openRet' = <<[res |-> OkUnit, stream |-> stream, pollOk |-> pollOk]>>
                      /\ pc' = c.pc
                      /\ join_handle' = c.slot
                      /\ handleFate' = c.fate
                      /\ engine' = IF started.thread THEN Engine("running", OkUnit, "") ELSE engine
                      /\ socket' = [callerHolds |-> MoveStream(stream).caller,
                                    io |-> socket.io \cup started.io]
    /\ UNCHANGED <<request, response, cur, calls, closeCmds, joins, lastOp, channels,
                   open_ids, blocked_tx, nextRx, receivers, notes>>
    /\ UNCHANGED <<ackVars, tuneVars>>

\* an open_channel that reports every failure as the generic dropped-sender kind
OpenChannelResultGeneric(resp) ==
    IF resp.ok THEN OkVal(resp.val) ELSE Err(ErrorFrom(EventLoopDropped))
\* an open_channel that builds every Channel for the first channel id
OpenChannelResultFirst(resp) ==
    IF resp.ok THEN OkVal(1) ELSE Err(resp.err)
\* Connection::open_channel: self.channel0.open_channel(channel_id)? then Ok(Channel::new)
OpenChannelResult(resp) ==
    IF resp.ok THEN OkVal(resp.val) ELSE Err(resp.err)

\* an open_channel that asks the control plane for any free id
OpenChannelArgAny(channel_id) == NoneId
\* Connection::open_channel: the caller's channel_id is handed to the control plane as is
OpenChannelArg(channel_id) == channel_id

FinishOp(op, res, root, blocked, arg, before, served) ==
    /\ lastOp' = [op |-> op, res |-> res, root |-> root, blocked |-> blocked,
                  arg |-> arg, before |-> before, served |-> served]
    /\ channels' = IF op = "open_channel" /\ res.ok
                   THEN channels \cup {Channel(res.val, ThisConn)} ELSE channels
    /\ pc' = "idle"
    /\ cur' = NoCall

\* Connection::open_channel, up to the point where the caller blocks for the response
OpenChannelCall ==
    /\ pc = "idle"
    /\ \E arg \in ChannelArgs :
         IF EngineAccepting
         THEN /\ request' = <<[op |-> "open_channel", arg |-> OpenChannelArg(arg)]>>
              /\ pc' = "wait_open_channel"
              /\ cur' = [op |-> "open_channel", by |-> "open_channel", root |-> RootCause,
                      engineAtCall |-> engine.st, arg |-> arg, before |-> open_ids,
                      cmd |-> OkUnit]
              /\ UNCHANGED <<lastOp, channels>>
         ELSE /\ FinishOp("open_channel", OpenChannelResult(Resp(Err(ControlPlaneError), "refused")),
                          RootCause, FALSE, arg, open_ids, FALSE)
              /\ UNCHANGED request
    /\ UNCHANGED <<join_handle, handleFate, engine, response, calls, closeCmds, joins,
                   openRet, open_ids, blocked_tx, nextRx, socket, receivers, notes>>
    /\ UNCHANGED <<ackVars, tuneVars>>

\* Connection::open_channel, from the response on
OpenChannelReturn ==
    /\ pc = "wait_open_channel"
    /\ response # <<>>
    /\ FinishOp("open_channel", OpenChannelResult(response[1]), cur.root,
                response[1].from = "failure", cur.arg, cur.before,
                response[1].from = "served")
    /\ response' = <<>>
    /\ UNCHANGED <<join_handle, handleFate, engine, request, calls, closeCmds, joins,
                   openRet, open_ids, blocked_tx, nextRx, socket, receivers, notes>>
    /\ UNCHANGED <<ackVars, tuneVars>>

\* Channel0Handle::set_blocked_tx(tx): the sender slot is overwritten
SetBlockedTx(tx) ==
    IF EngineAccepting THEN [res |-> OkUnit, slot |-> tx]
    ELSE [res |-> Err(ControlPlaneError), slot |-> blocked_tx]

\* a listen that registers the sender of the first notification channel made
UnboundedFirstSender(n) == [tx |-> 1, rx |-> n]
\* crossbeam_channel::unbounded(): the two endpoints of a fresh channel, the n-th made
Unbounded(n) == [tx |-> n, rx |-> n]

\* Connection::listen_for_connection_blocked
ListenForConnectionBlocked ==
    /\ pc = "idle"
    /\ nextRx <= MaxListeners
    /\ LET ch == Unbounded(nextRx)
           set == SetBlockedTx(ch.tx)
       IN  /\ blocked_tx' = set.slot
           /\ receivers' = IF set.res.ok THEN Append(receivers, ch.rx) ELSE receivers
           /\ FinishOp("listen", IF set.res.ok THEN OkVal(ch.rx) ELSE Err(set.res.err),
                       RootCause, FALSE, NoneId, open_ids, FALSE)
    /\ nextRx' = nextRx + 1
    /\ UNCHANGED <<join_handle, handleFate, engine, request, response, calls, closeCmds,
                   joins, openRet, open_ids, socket, notes>>
    /\ UNCHANGED <<ackVars, tuneVars>>

----------------------------------------------------------------------------
(* connection.rs: the shutdown protocol *)

\* a take that reads the slot and leaves it as it was
TakeKeeps(slot) == [taken |-> slot, left |-> slot]
\* Option::take on self.join_handle
Take(slot) == [taken |-> slot, left |-> "None"]

\* format!("{:?}", err) of the Box<dyn Any + Send> a failed join returns: the Debug
\* text of dyn Any does not show the value
DebugFmt(payload) == "Any"

\* join_handle.join().map_err(|err| ErrorKind::IoThreadPanic(format!("{:?}", err)))?
JoinResult(e) ==
    IF e.st = "panicked" THEN Err(ErrorFrom(IoThreadPanic(DebugFmt(e.payload))))
    ELSE e.res

\* a close_impl that joins first and sends the close command afterwards
CloseImplJoinFirst == <<"join", "close_connection">>
\* close_impl with the token present: close_connection()? and then join()
CloseImplSteps == <<"close_connection", "join">>

\* a close_impl that goes on to the join whatever the close command returned
AfterCloseCommandJoin(res) == "join"
\* self.channel0.close_connection()?: an error returns from close_impl at once
AfterCloseCommand(res) == IF res.ok THEN "join" ELSE "return"

\* close_impl returns r to close() or to drop(); at the end of a drop the fields of
\* the Connection are dropped on this thread, a stream among them would be closed
Return(by, r, root, sent, joined, blocked, atCall, cmd) ==
    /\ calls' = Append(calls, [by |-> by, ret |-> r, root |-> root, sent |-> sent,
                               joined |-> joined, blocked |-> blocked,
                               engineAtCall |-> atCall, engineAtReturn |-> engine.st,
                               cmd |-> cmd])
    /\ pc' = IF by = "close" THEN "closed" ELSE "dropped"
    /\ cur' = NoCall
    /\ socket' = IF by = "drop" /\ socket.callerHolds
                 THEN [socket EXCEPT !.io = @ \cup {SocketIo("caller", "drop")}]
                 ELSE socket

CloseCall(by, cmd) ==
    [op |-> "close_connection", by |-> by, root |-> RootCause, engineAtCall |-> engine.st,
     arg |-> NoneId, before |-> open_ids, cmd |-> cmd]

\* close_impl up to the point where the caller blocks
CloseImplBegin(by) ==
    LET t == Take(join_handle)
    IN  /\ join_handle' = t.left
        /\ IF t.taken # "Some"
           THEN /\ Return(by, OkUnit, RootCause, FALSE, FALSE, FALSE, engine.st, OkUnit)
                /\ UNCHANGED <<closeCmds, request, handleFate>>
           ELSE IF CloseImplSteps[1] = "join"
           THEN /\ pc' = "joining"
                /\ cur' = CloseCall(by, OkUnit)
                /\ UNCHANGED <<closeCmds, request, calls, handleFate, socket>>
           ELSE /\ closeCmds' = closeCmds + 1
                /\ IF EngineAccepting
                   THEN /\ request' = <<[op |-> "close_connection", arg |-> NoneId]>>
                        /\ pc' = "wait_close"
                        /\ cur' = CloseCall(by, OkUnit)
                        /\ UNCHANGED <<calls, handleFate, socket>>
                   ELSE LET res == Err(ControlPlaneError)
                        IN  IF AfterCloseCommand(res) = "join"
                            THEN /\ pc' = "joining"
                                 /\ cur' = CloseCall(by, res)
                                 /\ UNCHANGED <<request, calls, handleFate, socket>>
                            ELSE /\ Return(by, res, RootCause, TRUE, FALSE, FALSE,
                                           engine.st, res)
                                 /\ handleFate' = IF handleFate = "held" THEN "detached"
                                                  ELSE handleFate
                                 /\ UNCHANGED request
        /\ UNCHANGED <<engine, response, joins, openRet, lastOp, channels, open_ids,
                       blocked_tx, nextRx, receivers, notes>>
        /\ UNCHANGED <<ackVars, tuneVars>>

\* Connection::close(mut self)
Close ==
    /\ pc = "idle"
    /\ CloseImplBegin("close")

\* impl Drop for Connection: when the handle goes out of scope, also at the end of close()
Drop ==
    /\ pc \in {"idle", "closed"}
    /\ CloseImplBegin("drop")

\* close_impl: self.channel0.close_connection()? once the response is there
CloseConnectionReturn ==
    /\ pc = "wait_close"
    /\ response # <<>>
    /\ LET res == ResultOf(response[1])
       IN  IF AfterCloseCommand(res) = "join"
           THEN /\ pc' = "joining"
                /\ cur' = [cur EXCEPT !.cmd = res]
                /\ UNCHANGED <<calls, handleFate, socket>>
           ELSE /\ Return(cur.by, res, cur.root, TRUE, FALSE,
                          response[1].from = "failure", cur.engineAtCall, res)
                /\ handleFate' = IF handleFate = "held" THEN "detached" ELSE handleFate
    /\ response' = <<>>
    /\ UNCHANGED <<join_handle, engine, request, closeCmds, joins, openRet, lastOp,
                   channels, open_ids, blocked_tx, nextRx, receivers, notes>>
    /\ UNCHANGED <<ackVars, tuneVars>>

\* close_impl: join_handle.join() returns when the engine thread has terminated
Join ==
    /\ pc = "joining"
    /\ EngineTerminated
    /\ joins' = joins + 1
    /\ handleFate' = "joined"
    /\ Return(cur.by, JoinResult(engine), cur.root, closeCmds >= 1, TRUE, FALSE,
              cur.engineAtCall, cur.cmd)
    /\ UNCHANGED <<join_handle, engine, request, response, closeCmds, openRet, lastOp,
                   channels, open_ids, blocked_tx, nextRx, receivers, notes>>
    /\ UNCHANGED <<ackVars, tuneVars>>

----------------------------------------------------------------------------
(* The engine thread (collaborator) *)

FreeIds == ChannelIds \ open_ids

\* the engine answers the command waiting on the control plane
EngineServe ==
    /\ engine.st = "running"
    /\ request # <<>>
    /\ LET r == request[1]
       IN  \/ /\ r.op = "open_channel"
              /\ r.arg.some
              /\ IF r.arg.id \in FreeIds
                 THEN /\ open_ids' = open_ids \cup {r.arg.id}
                      /\ response' = <<Resp(OkVal(r.arg.id), "served")>>
                 ELSE /\ response' = <<Resp(Err(ErrorFrom(UnavailableChannelId(r.arg.id))), "served")>>
                      /\ UNCHANGED open_ids
              /\ UNCHANGED engine
           \/ /\ r.op = "open_channel"
              /\ ~r.arg.some
              /\ IF FreeIds = {}
                 THEN /\ response' = <<Resp(Err(ErrorFrom(ExhaustedChannelIds)), "served")>>
                      /\ UNCHANGED open_ids
                 ELSE \E id \in FreeIds :
                        /\ open_ids' = open_ids \cup {id}
                        /\ response' = <<Resp(OkVal(id), "served")>>
              /\ UNCHANGED engine
           \/ /\ r.op = "close_connection"
              /\ response' = <<Resp(OkUnit, "served")>>
              /\ engine' = Engine("closing", OkUnit, "")
              /\ UNCHANGED open_ids
    /\ request' = <<>>
    /\ socket' = EngineIo
    /\ UNCHANGED <<pc, join_handle, handleFate, cur, calls, closeCmds, joins, openRet,
                   lastOp, channels, blocked_tx, nextRx, receivers, notes>>
    /\ UNCHANGED <<ackVars, tuneVars>>

\* the engine stops on a failure: the blocked caller is handed the error
EngineFail ==
    /\ engine.st = "running"
    /\ \E k \in EngineFailures :
         LET e == ErrorFrom(k)
         IN  /\ engine' = Engine("failing", Err(e), "")
             /\ IF request # <<>>
                THEN response' = <<Resp(Err(ErrorClone(e)), "failure")>>
                ELSE UNCHANGED response
    /\ request' = <<>>
    /\ socket' = EngineIo
    /\ UNCHANGED <<pc, join_handle, handleFate, cur, calls, closeCmds, joins, openRet,
                   lastOp, channels, open_ids, blocked_tx, nextRx, receivers, notes>>
    /\ UNCHANGED <<ackVars, tuneVars>>

\* the engine thread's function returns its terminal result
EngineExit ==
    /\ engine.st \in {"closing", "failing"}
    /\ engine' = Engine("returned", engine.res, "")
    /\ socket' = EngineIo
    /\ UNCHANGED <<pc, join_handle, handleFate, request, response, cur, calls, closeCmds,
                   joins, openRet, lastOp, channels, open_ids, blocked_tx, nextRx,
                   receivers, notes>>
    /\ UNCHANGED <<ackVars, tuneVars>>

\* the engine thread terminates by an uncaught fault: its senders are dropped
EnginePanic ==
    /\ engine.st \in {"running", "closing"}
    /\ \E p \in PanicPayloads : engine' = Engine("panicked", engine.res, p)
    /\ IF request # <<>>
       THEN response' = <<Resp(Err(ErrorFrom(EventLoopDropped)), "panic")>>
       ELSE UNCHANGED response
    /\ request' = <<>>
    /\ UNCHANGED <<pc, join_handle, handleFate, cur, calls, closeCmds, joins, openRet,
                   lastOp, channels, open_ids, blocked_tx, nextRx, socket, receivers,
                   notes>>
    /\ UNCHANGED <<ackVars, tuneVars>>

\* the broker signals blocked or unblocked: the engine pushes a notification into
\* the sender slot; it arrives at the receiving endpoint of that channel
EngineNotifyBlocked ==
    /\ engine.st = "running"
    /\ blocked_tx # 0
    /\ Len(notes) < MaxNotes
    /\ notes' = Append(notes, [ch |-> blocked_tx, regs |-> Len(receivers)])
    /\ socket' = EngineIo
    /\ UNCHANGED <<pc, join_handle, handleFate, engine, request, response, cur, calls,
                   closeCmds, joins, openRet, lastOp, channels, open_ids, blocked_tx,
                   nextRx, receivers>>
    /\ UNCHANGED <<ackVars, tuneVars>>

----------------------------------------------------------------------------

----------------------------------------------------------------------------
(* delivery.rs: Delivery *)

\* Delivery::new(channel_id, deliver, content, properties): (consumer tag, Delivery)
DeliveryNew(channel_id, deliver) ==
    <<deliver.consumer_tag, Delivery(channel_id, deliver.delivery_tag)>>

\* Delivery::new_get_ok(channel_id, get_ok, content, properties)
DeliveryNewGetOk(channel_id, get_ok) ==
    Delivery(channel_id, get_ok.delivery_tag)

\* the consumer thread takes the next message once it has settled the last one
Receive(d) ==
    /\ consumer = "running"
    /\ EngineAccepting
    /\ copies = 0
    /\ delivery' = <<d>>
    /\ copies' = 1
    /\ clones' = 0
    /\ basicCalls' = 0
    /\ nextTag' = [nextTag EXCEPT ![d.channel_id] = @ + 1]
    /\ UNCHANGED <<consumer, lastCall>>
    /\ UNCHANGED <<connVars, tuneVars>>

OwnChannels == {c \in channels : c.conn = ThisConn /\ c.channel_id \in open_ids}

\* the engine pushes a message of a subscription to the consumer thread
ConsumerDelivery ==
    \E c \in OwnChannels :
       /\ nextTag[c.channel_id] <= MaxTag
       /\ Receive(DeliveryNew(c.channel_id,
              [consumer_tag |-> "ctag", delivery_tag |-> nextTag[c.channel_id]])[2])

\* the consumer thread fetches a single message
GetDelivery ==
    \E c \in OwnChannels :
       /\ nextTag[c.channel_id] <= MaxTag
       /\ Receive(DeliveryNewGetOk(c.channel_id, [delivery_tag |-> nextTag[c.channel_id]]))

\* #[derive(Clone)] on Delivery
CloneDelivery ==
    /\ consumer = "running"
    /\ copies > 0
    /\ clones < MaxClones
    /\ copies' = copies + 1
    /\ clones' = clones + 1
    /\ UNCHANGED <<consumer, delivery, nextTag, basicCalls, lastCall>>
    /\ UNCHANGED <<connVars, tuneVars>>

\* Channel::basic_ack / basic_nack / basic_reject (collaborator): the command is
\* accepted for sending while the channel's connection takes commands
ChannelOutcome(c) ==
    IF c.conn # ThisConn \/ EngineAccepting THEN OkUnit ELSE Err(ControlPlaneError)

BasicCmd(method, c, d, multiple, requeue) ==
    [method |-> method, channel |-> c, delivery_tag |-> d.delivery_tag,
     multiple |-> multiple, requeue |-> requeue]

\* a check that lets every pairing through
AffinityCheckSkipped(d, c) == TRUE
\* a check that accepts only a Channel of the connection the delivery came from
AffinityCheckSameConnection(d, c) == d.channel_id = c.channel_id /\ c.conn = ThisConn
\* assert_eq!(self.channel_id, channel.channel_id(), ..)
AffinityCheck(d, c) == d.channel_id = c.channel_id

\* a call that borrows the Delivery and leaves it with the caller
ByReference(n) == n
\* ack / nack / reject take self by value: the caller's copy is gone
ByValue(n) == n - 1

\* channel.basic_ack(self, multiple)
AckForward(d, c, multiple) == BasicCmd("basic_ack", c, d, multiple, FALSE)
\* a nack that passes its two flags in the other order
NackForwardSwapped(d, c, multiple, requeue) == BasicCmd("basic_nack", c, d, requeue, multiple)
\* channel.basic_nack(self, multiple, requeue)
NackForward(d, c, multiple, requeue) == BasicCmd("basic_nack", c, d, multiple, requeue)
\* channel.basic_reject(self, requeue)
RejectForward(d, c, requeue) == BasicCmd("basic_reject", c, d, FALSE, requeue)

\* the common shape of ack, nack and reject: the assertion, then the forwarded call
Settle(op, c, multiple, requeue, cmd) ==
    /\ consumer = "running"
    /\ copies > 0
    /\ LET d == delivery[1]
       IN  IF AffinityCheck(d, c)
           THEN /\ copies' = ByValue(copies)
                /\ basicCalls' = basicCalls + 1
                /\ lastCall' = [op |-> op, d |-> d, c |-> c, multiple |-> multiple,
                                requeue |-> requeue, outcome |-> "returned",
                                res |-> ChannelOutcome(c), sent |-> <<cmd>>,
                                before |-> basicCalls, engineAtCall |-> engine.st]
                /\ UNCHANGED consumer
           ELSE /\ consumer' = "panicked"
                /\ copies' = 0
                /\ lastCall' = [op |-> op, d |-> d, c |-> c, multiple |-> multiple,
                                requeue |-> requeue, outcome |-> "panic",
                                res |-> OkUnit, sent |-> <<>>,
                                before |-> basicCalls, engineAtCall |-> engine.st]
                /\ UNCHANGED basicCalls
    /\ UNCHANGED <<delivery, nextTag, clones>>
    /\ UNCHANGED <<connVars, tuneVars>>

HeldChannels == channels \cup ForeignChannels

\* Delivery::ack
Ack ==
    /\ delivery # <<>>
    /\ \E c \in HeldChannels, multiple \in BOOLEAN :
         Settle("ack", c, multiple, FALSE, AckForward(delivery[1], c, multiple))

\* Delivery::nack
Nack ==
    /\ delivery # <<>>
    /\ \E c \in HeldChannels, multiple \in BOOLEAN, requeue \in BOOLEAN :
         Settle("nack", c, multiple, requeue, NackForward(delivery[1], c, multiple, requeue))

\* Delivery::reject
Reject ==
    /\ delivery # <<>>
    /\ \E c \in HeldChannels, requeue \in BOOLEAN :
         Settle("reject", c, FALSE, requeue, RejectForward(delivery[1], c, requeue))

----------------------------------------------------------------------------

Next ==
    \/ Open
    \/ OpenChannelCall
    \/ OpenChannelReturn
    \/ ListenForConnectionBlocked
    \/ Close
    \/ Drop
    \/ CloseConnectionReturn
    \/ Join
    \/ EngineServe
    \/ EngineFail
    \/ EngineExit
    \/ EnginePanic
    \/ EngineNotifyBlocked

\* the connection handle, its owner thread and the engine thread
Spec == Init /\ [][Next]_vars

\* the engine thread is scheduled: it answers a waiting command and, once told to
\* close or stopped by a failure, returns; a caller whose response has arrived or
\* whose join can complete goes on
Fairness ==
    /\ WF_vars(EngineServe)
    /\ WF_vars(EngineExit)
    /\ WF_vars(OpenChannelReturn)
    /\ WF_vars(CloseConnectionReturn)
    /\ WF_vars(Join)

\* the same system with its threads scheduled fairly
SpecLive == Init /\ [][Next]_vars /\ Fairness

\* an open connection with every channel id opened, handed to the consumer thread
InitAck ==
    /\ pc = "idle"
    /\ join_handle = "Some"
    /\ handleFate = "held"
    /\ engine = Engine("running", OkUnit, "")
    /\ request = <<>>
    /\ response = <<>>
    /\ cur = NoCall
    /\ calls = <<>>
    /\ closeCmds = 0
    /\ joins = 0
    /\ openRet = <<[res |-> OkUnit, stream |-> "ok", pollOk |-> TRUE]>>
    /\ lastOp = [op |-> "open_channel", res |-> OkVal(ChannelMax), root |-> NoKind,
                 blocked |-> FALSE, arg |-> SomeId(ChannelMax),
                 before |-> ChannelIds \ {ChannelMax}, served |-> TRUE]
    /\ channels = {Channel(k, ThisConn) : k \in ChannelIds}
    /\ open_ids = ChannelIds
    /\ blocked_tx = 0
    /\ nextRx = 1
    /\ consumer = "running"
    /\ delivery = <<>>
    /\ copies = 0
    /\ nextTag = [k \in ChannelIds |-> 1]
    /\ clones = 0
    /\ basicCalls = 0
    /\ lastCall = NoAck
    /\ socket = [callerHolds |-> FALSE,
                 io |-> {SocketIo("caller", "open"), SocketIo("engine", "run")}]
    /\ receivers = <<>>
    /\ notes = <<>>
    /\ tuning = TuningDefault
    /\ lastSet = NoSet

NextAck ==
    \/ EngineFail
    \/ EnginePanic
    \/ ConsumerDelivery
    \/ GetDelivery
    \/ CloneDelivery
    \/ Ack
    \/ Nack
    \/ Reject

\* the consumer thread acknowledging deliveries on the channels of an open connection
SpecAck == InitAck /\ [][NextAck]_vars

\* any ConnectionTuning value, before it is given to open
InitTuning ==
    /\ InitConnection
    /\ tuning \in Tunings
    /\ lastSet = NoSet

NextTuning ==
    \/ SetMemChannelBound
    \/ SetBufferedWritesHighWater
    \/ SetBufferedWritesLowWater
    \/ SetPollTimeout

\* chains of ConnectionTuning setters from every starting value
SpecTuning == InitTuning /\ [][NextTuning]_vars
----------------------------------------------------------------------------
(* The shutdown protocol: C1, C2, C3, C7 *)

FirstClose == Len(calls) >= 1 /\ calls[1].by = "close"

\* C1: every shutdown invocation after the first returns success, sends no
\* close-connection command and attempts no join; so the close command is sent at
\* most once and the engine thread is joined at most once per Connection.
C1_LaterShutdownsAreNoOps ==
    /\ \A i \in 2..Len(calls) :
          /\ calls[i].ret = OkUnit
          /\ ~calls[i].sent
          /\ ~calls[i].joined
    /\ closeCmds <= 1
    /\ joins <= 1

\* close() joined the engine thread and the drop at its end ran the protocol again
C1_Witness ==
    /\ Len(calls) = 2
    /\ calls[1].by = "close" /\ calls[1].sent /\ calls[1].joined
    /\ calls[2].by = "drop"

\* C2: the first shutdown invocation (close) returns only after the engine thread
\* has terminated and been joined, and returns the engine thread's own terminal
\* outcome, whatever the engine's state when close is called.
C2_FirstCloseJoinsAndReturnsOutcome ==
    FirstClose =>
        /\ calls[1].joined
        /\ calls[1].engineAtReturn \in {"returned", "panicked"}
        /\ (calls[1].engineAtReturn = "returned" => calls[1].ret = engine.res)

\* C3: once the automatic cleanup on scope exit has completed, the engine thread of
\* an opened Connection has terminated and has been joined, not left running or
\* detached.
C3_NoEngineThreadLeaked ==
    pc = "dropped" => (EngineTerminated /\ handleFate = "joined")

\* C7: when the engine thread terminates abnormally during shutdown, close returns
\* IoThreadPanic carrying the rendered fault payload; a normal join yields the
\* engine's own result unchanged.
C7_AbnormalTerminationReported ==
    FirstClose =>
        /\ (calls[1].engineAtCall = "running" /\ calls[1].engineAtReturn = "panicked")
              => calls[1].ret = Err(ErrorFrom(IoThreadPanic(DebugFmt(engine.payload))))
        /\ (calls[1].joined /\ calls[1].engineAtReturn = "returned")
              => calls[1].ret = engine.res

----------------------------------------------------------------------------
(* Acknowledgment: C4, C5, C6 *)

Settled == lastCall.op # "none"
SameId == lastCall.d.channel_id = lastCall.c.channel_id

\* the command a call of the given kind is to forward: the delivery's tag and the
\* caller's flags (ack carries no requeue flag, reject no multiple flag)
Expected ==
    [method |-> IF lastCall.op = "ack" THEN "basic_ack"
                ELSE IF lastCall.op = "nack" THEN "basic_nack" ELSE "basic_reject",
     channel |-> lastCall.c,
     delivery_tag |-> lastCall.d.delivery_tag,
     multiple |-> lastCall.op # "reject" /\ lastCall.multiple,
     requeue |-> lastCall.op # "ack" /\ lastCall.requeue]

\* C4: with a channel whose id differs from the delivery's, ack, nack and reject
\* panic before anything is forwarded to the channel: no command is sent and the
\* mismatch is not returned as an error value.
C4_MismatchPanicsBeforeForwarding ==
    (Settled /\ ~SameId) =>
        /\ lastCall.outcome = "panic"
        /\ lastCall.sent = <<>>
        /\ basicCalls = lastCall.before
        /\ consumer = "panicked"

\* a call was made with a channel of another id
C4_Witness ==
    /\ Settled /\ ~SameId
    /\ lastCall.c.conn = ThisConn
    /\ lastCall.outcome = "panic"

C6_AtMostOneAck == basicCalls <= 1

\* C6, amended: every ack, nack or reject consumes one Delivery value, so the
\* commands forwarded for a delivery never exceed the values that exist of it: the
\* received one and one per clone; at most one when it is never cloned.
C6_OneAckPerValue ==
    /\ basicCalls + copies <= 1 + clones
    /\ clones = 0 => basicCalls <= 1

\* the received value and its clone were both acknowledged
C6_Witness ==
    /\ clones >= 1
    /\ basicCalls = 1 + clones

----------------------------------------------------------------------------
(* Errors seen by callers: C8, C9 *)

PeerClose(k) == k.kind = "ServerClosedConnection"

----------------------------------------------------------------------------
(* Opening: C10 *)

\* C10: open has two outcomes: a Connection whose join-handle slot is filled and
\* whose engine thread runs, or an error with no engine thread; a stream that closes
\* before the handshake completes gives UnexpectedSocketClose and no engine thread.
C10_OpenAllOrNothing ==
    /\ [][pc = "start" /\ pc' # "start" =>
            \/ /\ openRet'[1].res.ok
               /\ pc' = "idle"
               /\ join_handle' = "Some"
               /\ engine'.st = "running"
            \/ /\ ~openRet'[1].res.ok
               /\ pc' = "open_failed"
               /\ join_handle' = "absent"
               /\ engine'.st = "none"]_vars
    /\ [](pc = "open_failed" =>
            /\ engine.st = "none"
            /\ (openRet[1].pollOk /\ openRet[1].stream = "closes") =>
                  openRet[1].res = Err(ErrorFrom(UnexpectedSocketClose)))

\* open was given a stream that closed during the handshake
C10_Witness ==
    /\ pc = "open_failed"
    /\ openRet[1].pollOk
    /\ openRet[1].stream = "closes"
    /\ engine.st = "none"

----------------------------------------------------------------------------
(* The socket: C11 *)

----------------------------------------------------------------------------
(* Blocked notifications: C12 *)

----------------------------------------------------------------------------
(* Channel ids: C13, C14 *)

OpenChannelServed == lastOp.op = "open_channel" /\ lastOp.served

\* C13: open_channel(Some(id)) answered by the engine while a channel with that id
\* is open fails with UnavailableChannelId(id); a successful open_channel(Some(id))
\* opens id itself and only when it was not open, so no id is open twice at once.
C13_OpenIdUnavailable ==
    (OpenChannelServed /\ lastOp.arg.some) =>
        /\ lastOp.arg.id \in lastOp.before =>
              lastOp.res = Err(ErrorFrom(UnavailableChannelId(lastOp.arg.id)))
        /\ lastOp.res.ok =>
              /\ lastOp.res.val = lastOp.arg.id
              /\ lastOp.arg.id \notin lastOp.before
              /\ Channel(lastOp.arg.id, ThisConn) \in channels

\* the same explicit id was asked for again while open
C13_Witness ==
    /\ OpenChannelServed
    /\ lastOp.arg = SomeId(ChannelMax)
    /\ ChannelMax \in lastOp.before
    /\ ~lastOp.res.ok
    /\ Channel(ChannelMax, ThisConn) \in channels

\* C14: open_channel(None) answered by the engine succeeds with a fresh id, one not
\* in use before, while fewer channels are open than the negotiated capacity, and
\* the call beyond capacity fails with ExhaustedChannelIds.
C14_OpenAnyIdUntilExhausted ==
    (OpenChannelServed /\ ~lastOp.arg.some) =>
        IF Cardinality(lastOp.before) < ChannelMax
        THEN /\ lastOp.res.ok
             /\ lastOp.res.val \in ChannelIds \ lastOp.before
             /\ Channel(lastOp.res.val, ThisConn) \in channels
        ELSE lastOp.res = Err(ErrorFrom(ExhaustedChannelIds))

\* every id of the capacity was handed out and one more was asked for
C14_Witness ==
    /\ OpenChannelServed
    /\ ~lastOp.arg.some
    /\ lastOp.before = ChannelIds
    /\ lastOp.res = Err(ErrorFrom(ExhaustedChannelIds))
    /\ Cardinality(channels) = ChannelMax

----------------------------------------------------------------------------
(* ConnectionTuning: C15 *)

\* C15: every ConnectionTuning setter returns a value in which the named field
\* equals the argument and the three other fields are as before, from every starting
\* value and along every chain of setters; a low-water mark above the high-water
\* mark is taken like any other argument.
C15_SetterReplacesOneField ==
    lastSet.field # "none" =>
        /\ tuning[lastSet.field] = lastSet.arg
        /\ \A f \in TuningFields \ {lastSet.field} : tuning[f] = lastSet.before[f]

\* the low-water setter was given, and kept, a mark above the high-water mark
C15_Witness ==
    /\ lastSet.field = "buffered_writes_low_water"
    /\ lastSet.arg > lastSet.before.buffered_writes_high_water
    /\ tuning.buffered_writes_low_water > tuning.buffered_writes_high_water
    /\ lastSet.before # TuningDefault

----------------------------------------------------------------------------
(* The join-handle slot: C16, C17 *)

CloseImplStarted == Len(calls) >= 1 \/ pc \in {"wait_close", "joining"}

\* C16: the join-handle slot of a Connection is empty if and only if a close_impl
\* has started on it: open fills it, the first close_impl empties it whatever its
\* outcome, no other operation empties it and nothing refills it.
C16_SlotEmptyIffShutdownStarted ==
    /\ [](join_handle # "absent" => (join_handle = "None" <=> CloseImplStarted))
    /\ [][(join_handle = "absent" /\ join_handle' # "absent") =>
              (pc = "start" /\ join_handle' = "Some")]_vars
    /\ [][(join_handle = "Some" /\ join_handle' # "Some") =>
              /\ join_handle' = "None"
              /\ pc = "idle"
              /\ pc' \in {"wait_close", "joining", "closed", "dropped"}]_vars
    /\ [][join_handle = "None" => join_handle' = "None"]_vars

\* the first close_impl failed on its close command, a second one has run since, and
\* the slot is empty
C16_Witness ==
    /\ Len(calls) = 2
    /\ ~calls[1].ret.ok
    /\ ~calls[1].joined
    /\ join_handle = "None"
    /\ lastOp.op = "listen"

\* C17: in close_impl with the token present the close-connection command is sent
\* before the join and the join is attempted only if the command succeeded: when it
\* fails, close_impl returns the command's error at once, the taken JoinHandle is
\* dropped unjoined, and no later shutdown invocation joins the engine thread or
\* returns its terminal outcome.
C17_JoinOnlyAfterCloseCommandSucceeded ==
    /\ pc = "joining" => (closeCmds = 1 /\ cur.cmd.ok /\ joins = 0)
    /\ \A i \in 1..Len(calls) :
          /\ calls[i].joined => (calls[i].sent /\ calls[i].cmd.ok)
          /\ (calls[i].sent /\ ~calls[i].cmd.ok) =>
                /\ calls[i].ret = calls[i].cmd
                /\ ~calls[i].joined
                /\ joins = 0
                /\ handleFate = "detached"
                /\ \A j \in 1..Len(calls) :
                      j > i => (~calls[j].sent /\ ~calls[j].joined /\ calls[j].ret = OkUnit)

\* close() got the engine's failure as the answer to its close command while the
\* engine thread was still to return, and the drop after it has run
C17_Witness ==
    /\ Len(calls) = 2
    /\ calls[1].by = "close"
    /\ calls[1].sent
    /\ ~calls[1].cmd.ok
    /\ calls[1].engineAtReturn = "failing"
    /\ calls[2].by = "drop"
    /\ engine.st = "returned"

----------------------------------------------------------------------------
(* Affinity by channel id only: C18 *)

\* the Channel given is not the one the delivery was received on
OtherChannel == lastCall.c # Channel(lastCall.d.channel_id, ThisConn)

\* C18: the affinity check of ack, nack and reject compares channel ids only: given
\* a Channel that is not the delivery's own, the call panics exactly when the ids
\* differ; with equal ids (a channel of another connection) it is accepted and the
\* acknowledgment is forwarded to that Channel, the wrong pairing undetected.
C18_AffinityComparesIdsOnly ==
    (Settled /\ OtherChannel) =>
        /\ lastCall.outcome = "panic" <=> ~SameId
        /\ SameId =>
              /\ lastCall.outcome = "returned"
              /\ Len(lastCall.sent) = 1
              /\ lastCall.sent[1].channel = lastCall.c
              /\ lastCall.sent[1].delivery_tag = lastCall.d.delivery_tag

\* a delivery of this connection was acknowledged through a channel of another
\* connection that has the same id, and the consumer thread went on
C18_Witness ==
    /\ Settled /\ OtherChannel /\ SameId
    /\ lastCall.c.conn # ThisConn
    /\ lastCall.d.channel_id \in open_ids
    /\ lastCall.op = "ack"
    /\ lastCall.outcome = "returned"
    /\ consumer = "running"

----------------------------------------------------------------------------
(* Termination of close: C19 *)

InCloseImpl == pc \in {"wait_close", "joining"}

\* C19: with the engine thread scheduled fairly, every close and every cleanup on
\* drop returns: a caller waits only for the close response or for the join, each of
\* which comes, and a close_impl that finds the slot empty returns without waiting.
C19_CloseReturns ==
    /\ InCloseImpl ~> (pc \in {"closed", "dropped"})
    /\ [](pc = "wait_close" =>
            (cur.op = "close_connection" /\ (request # <<>> \/ response # <<>>)))
    /\ [](pc = "joining" =>
            (cur.op = "close_connection" /\ cur.cmd.ok /\ engine.st # "running"))
    /\ [][(join_handle = "None" /\ ~InCloseImpl /\ pc' # pc) =>
              (pc' = "dropped" /\ Len(calls') = Len(calls) + 1)]_vars

\* a drop waited for the close response and for the join and has returned
C19_Witness ==
    /\ pc = "dropped"
    /\ Len(calls) = 1
    /\ calls[1].by = "drop"
    /\ calls[1].sent
    /\ calls[1].joined
    /\ calls[1].engineAtCall = "running"
====
